---- MODULE Spec2Model ----
(***************************************************************************)
(* Model of ksdn/vnids_node.go: the node-side VNID table (nodeVNIDMap),    *)
(* the namespace event handler and the pod/service reconciliation pass.    *)
(*                                                                         *)
(* Every method of nodeVNIDMap takes vmap.lock for its whole body.  A      *)
(* method call is modelled as a frame: the caller invokes (pc = "lock"),   *)
(* vmapLock acquires the mutex, the body runs one statement per step, the  *)
(* last body step releases the mutex (the deferred Unlock) and leaves the  *)
(* result in the frame (pc = "ret") for the caller to consume.             *)
(***************************************************************************)
EXTENDS Naturals, Sequences, FiniteSets, TLC

\* ------------------------------------------------------------------ bounds
MaxVNID == 1
MaxBatch == 2
NumRunPods == 2
NumOtherPods == 1

\* vnid.GlobalVNID
GlobalVNID == 0

\* utilwait.Backoff{Steps: 5}
Steps == 5

\* All namespace names of the model, in the order of Go's sort.Strings.
NameOrder == <<"a", "b">>
Names == {NameOrder[i] : i \in 1..Len(NameOrder)}
VNIDs == 0..MaxVNID
\* the namespaces the watch reports events for
EventNames == {"a"}

NoHolder == "nobody"
ReadOps == {"GetVNID", "GetNamespaces"}

VARIABLES
    ids,          \* vmap.ids: namespace name -> VNID (a partial map)
    namespaces,   \* vmap.namespaces: VNID -> set of namespace names (a partial map)
    lock,         \* holder of vmap.lock, or NoHolder
    frame,        \* per task: the nodeVNIDMap method it is executing
    calls,        \* API harness: the last two setVNID/unsetVNID calls, oldest first
    batch,        \* nodeHandleNetnsEvent: the batch being handled (<<>>: none)
    idx,          \* nodeHandleNetnsEvent: position of evt in batch
    hpc,          \* nodeHandleNetnsEvent: where the handler is
    todo,         \* nodeHandleNetnsEvent: statements left in the current switch case
    oldNetID,     \* nodeHandleNetnsEvent: the local oldNetID of case EventAdded
    pass,         \* updatePodNetwork: its arguments, locals and position
    wait,         \* WaitAndGetVNID: its argument, loop counter and result
    evPre,        \* history: the table when the current event was dispatched
    handled,      \* history: the events of this batch dispatched so far
    passes,       \* history: the updatePodNetwork calls of this batch
    log,          \* history: the calls made for the current event
    firstFail,    \* history: position in log of the first failed call (0: none)
    failedBefore, \* history: a call failed for an earlier event of this batch
    services,     \* watchServices: the shadow cache, service UID -> service
    rules,        \* the dataplane: the service flows installed, flow -> VNID
    sw,           \* watchServices: the delta being processed, locals and position
    boot          \* VnidStartNode: its position, and the two watch loops

vmapVars == <<ids, namespaces, lock>>
handlerVars == <<batch, idx, hpc, todo, oldNetID>>
histVars == <<evPre, handled, passes, log, firstFail, failedBefore>>
nodeVars == <<batch, idx, hpc, todo, oldNetID, pass, wait,
              evPre, handled, passes, log, firstFail, failedBefore>>
svcVars == <<services, rules, sw>>
vars == <<ids, namespaces, lock, frame, calls, batch, idx, hpc, todo, oldNetID,
          pass, wait, evPre, handled, passes, log, firstFail, failedBefore,
          services, rules, sw, boot>>

\* ------------------------------------------------------------ Go map values
EmptyMap == [x \in {} |-> 0]
MapPut(f, k, v) == [x \in (DOMAIN f) \cup {k} |-> IF x = k THEN v ELSE f[x]]
MapDelete(f, k) == [x \in (DOMAIN f) \ {k} |-> f[x]]

\* sets.String.List(): the members as a sorted slice.
List(set) == SelectSeq(NameOrder, LAMBDA n : n \in set)

\* ------------------------------------------------- nodeVNIDMap, pure parts
newNodeVNIDMap == [ids |-> EmptyMap, namespaces |-> EmptyMap]

\* Faulty variant: a fresh set replaces the one found.
addNamespaceToSet_overwrite(nss, name, vnid) ==
    MapPut(nss, vnid, {name})

addNamespaceToSet(nss, name, vnid) ==
    LET set == IF vnid \in DOMAIN nss THEN nss[vnid] ELSE {}
    IN  MapPut(nss, vnid, set \cup {name})

\* Faulty variant: set.Delete(name) forgotten.
removeNamespaceFromSet_noDelete(nss, name, vnid) ==
    IF vnid \in DOMAIN nss
    THEN IF Cardinality(nss[vnid]) = 0 THEN MapDelete(nss, vnid) ELSE nss
    ELSE nss

\* Faulty variant: the set.Len() == 0 clean-up forgotten.
removeNamespaceFromSet_keepEmpty(nss, name, vnid) ==
    IF vnid \in DOMAIN nss
    THEN MapPut(nss, vnid, nss[vnid] \ {name})
    ELSE nss

\* Faulty variant: the key is deleted without looking at set.Len().
removeNamespaceFromSet_dropSet(nss, name, vnid) ==
    IF vnid \in DOMAIN nss
    THEN MapDelete(nss, vnid)
    ELSE nss

removeNamespaceFromSet(nss, name, vnid) ==
    IF vnid \in DOMAIN nss
    THEN LET set == nss[vnid] \ {name}
         IN  IF Cardinality(set) = 0
             THEN MapDelete(nss, vnid)
             ELSE MapPut(nss, vnid, set)
    ELSE nss

\* The result of GetNamespaces: nil, or the sorted member list.
GetNamespaces(nss, id) ==
    IF id \in DOMAIN nss
    THEN [nil |-> FALSE, list |-> List(nss[id])]
    ELSE [nil |-> TRUE, list |-> <<>>]

\* The result of GetVNID: (id, nil) or (0, error).
GetVNID(m, name) ==
    IF name \in DOMAIN m
    THEN [id |-> m[name], err |-> FALSE]
    ELSE [id |-> 0, err |-> TRUE]

\* ------------------------------------------------------------ method frames
Procs == {"caller", "reader", "netns", "task"}

NoRet == [id |-> 0, err |-> FALSE, nil |-> FALSE, list |-> <<>>]
NoFrame == [op |-> "none", name |-> "", id |-> 0, pc |-> "idle", ret |-> NoRet]

\* A task calls a method of vmap: its first statement is vmap.lock.Lock().
Invoke(op, name, id) ==
    [op |-> op, name |-> name, id |-> id, pc |-> "lock", ret |-> NoRet]

\* The first statement after the lock is taken.
EntryPc(op) ==
    CASE op = "GetVNID" -> "get_vnid"
      [] op = "GetNamespaces" -> "get_namespaces"
      [] op = "setVNID" -> "set_remove"
      [] op = "unsetVNID" -> "unset_lookup"

\* vmap.lock.Lock(): blocks while another task holds the mutex.
vmapLock(p) ==
    /\ frame[p].pc = "lock"
    /\ lock = NoHolder
    /\ lock' = p
    /\ frame' = [frame EXCEPT ![p].pc = EntryPc(frame[p].op)]
    /\ UNCHANGED <<ids, namespaces>>

\* Faulty variant: the deferred Unlock forgotten, the caller keeps the mutex.
GetVNID_body_keepLock(p) ==
    /\ frame[p].pc = "get_vnid"
    /\ lock = p
    /\ frame' = [frame EXCEPT ![p].pc = "ret",
                              ![p].ret = [NoRet EXCEPT
                                            !.id = GetVNID(ids, frame[p].name).id,
                                            !.err = GetVNID(ids, frame[p].name).err]]
    /\ UNCHANGED <<ids, namespaces, lock>>

\* GetVNID's body and its deferred Unlock.
GetVNID_body(p) ==
    /\ frame[p].pc = "get_vnid"
    /\ lock = p
    /\ frame' = [frame EXCEPT ![p].pc = "ret",
                              ![p].ret = [NoRet EXCEPT
                                            !.id = GetVNID(ids, frame[p].name).id,
                                            !.err = GetVNID(ids, frame[p].name).err]]
    /\ lock' = NoHolder
    /\ UNCHANGED <<ids, namespaces>>

\* GetNamespaces' body and its deferred Unlock.
GetNamespaces_body(p) ==
    /\ frame[p].pc = "get_namespaces"
    /\ lock = p
    /\ frame' = [frame EXCEPT ![p].pc = "ret",
                              ![p].ret = [NoRet EXCEPT
                                            !.nil = GetNamespaces(namespaces, frame[p].id).nil,
                                            !.list = GetNamespaces(namespaces, frame[p].id).list]]
    /\ lock' = NoHolder
    /\ UNCHANGED <<ids, namespaces>>

\* setVNID: if oldId, found := vmap.ids[name]; found { removeNamespaceFromSet }
setVNID_remove(p) ==
    /\ frame[p].pc = "set_remove"
    /\ lock = p
    /\ namespaces' = IF frame[p].name \in DOMAIN ids
                     THEN removeNamespaceFromSet(namespaces, frame[p].name,
                                                 ids[frame[p].name])
                     ELSE namespaces
    /\ frame' = [frame EXCEPT ![p].pc = "set_store"]
    /\ UNCHANGED <<ids, lock>>

\* setVNID: vmap.ids[name] = id
setVNID_store(p) ==
    /\ frame[p].pc = "set_store"
    /\ lock = p
    /\ ids' = MapPut(ids, frame[p].name, frame[p].id)
    /\ frame' = [frame EXCEPT ![p].pc = "set_add"]
    /\ UNCHANGED <<namespaces, lock>>

\* setVNID: vmap.addNamespaceToSet(name, id), then the deferred Unlock.
setVNID_add(p) ==
    /\ frame[p].pc = "set_add"
    /\ lock = p
    /\ namespaces' = addNamespaceToSet(namespaces, frame[p].name, frame[p].id)
    /\ frame' = [frame EXCEPT ![p].pc = "ret"]
    /\ lock' = NoHolder
    /\ UNCHANGED ids

\* unsetVNID: id, found := vmap.ids[name]; if !found { return 0, error }
unsetVNID_lookup(p) ==
    /\ frame[p].pc = "unset_lookup"
    /\ lock = p
    /\ IF frame[p].name \in DOMAIN ids
       THEN /\ frame' = [frame EXCEPT ![p].pc = "unset_remove",
                                      ![p].id = ids[frame[p].name]]
            /\ lock' = lock
       ELSE /\ frame' = [frame EXCEPT ![p].pc = "ret",
                                      ![p].ret = [NoRet EXCEPT !.id = 0, !.err = TRUE]]
            /\ lock' = NoHolder
    /\ UNCHANGED <<ids, namespaces>>

\* unsetVNID: vmap.removeNamespaceFromSet(name, id)
unsetVNID_remove(p) ==
    /\ frame[p].pc = "unset_remove"
    /\ lock = p
    /\ namespaces' = removeNamespaceFromSet(namespaces, frame[p].name, frame[p].id)
    /\ frame' = [frame EXCEPT ![p].pc = "unset_delete"]
    /\ UNCHANGED <<ids, lock>>

\* Faulty variant: delete(vmap.ids, name) forgotten.
unsetVNID_delete_keepForward(p) ==
    /\ frame[p].pc = "unset_delete"
    /\ lock = p
    /\ ids' = ids
    /\ frame' = [frame EXCEPT ![p].pc = "ret",
                              ![p].ret = [NoRet EXCEPT !.id = frame[p].id, !.err = FALSE]]
    /\ lock' = NoHolder
    /\ UNCHANGED namespaces

\* unsetVNID: delete(vmap.ids, name); return id, nil; then the deferred Unlock.
unsetVNID_delete(p) ==
    /\ frame[p].pc = "unset_delete"
    /\ lock = p
    /\ ids' = MapDelete(ids, frame[p].name)
    /\ frame' = [frame EXCEPT ![p].pc = "ret",
                              ![p].ret = [NoRet EXCEPT !.id = frame[p].id, !.err = FALSE]]
    /\ lock' = NoHolder
    /\ UNCHANGED namespaces

\* One step of whatever vmap method task p is inside (GetNamespaces apart:
\* only callers outside this file use it).
vmapStep(p) ==
    \/ vmapLock(p)
    \/ GetVNID_body(p)
    \/ setVNID_remove(p)
    \/ setVNID_store(p)
    \/ setVNID_add(p)
    \/ unsetVNID_lookup(p)
    \/ unsetVNID_remove(p)
    \/ unsetVNID_delete(p)

\* ------------------------------------------------------------ the node's world
\* What the collaborators return for a namespace: GetLocalPods gives the
\* running pods and the other pods, kClient.Services(ns).List the services
\* (a headless one, then one with a cluster IP).
Item(ns, kind, k, ip) == [ns |-> ns, kind |-> kind, k |-> k, ip |-> ip]
NoItems == <<>>

GetLocalPods(ns) ==
    [runPods   |-> [k \in 1..NumRunPods |-> Item(ns, "run", k, FALSE)],
     otherPods |-> [k \in 1..NumOtherPods |-> Item(ns, "other", k, FALSE)]]

ListServices(ns) == <<Item(ns, "svc", 1, FALSE), Item(ns, "svc", 2, TRUE)>>

IsServiceIPSet(svc) == svc.ip

\* A service: serv.UID, serv.Namespace, whether a cluster IP is set, and
\* serv.Spec.Ports (each port's Protocol and Port).
ServicePort(protocol, port) == [Protocol |-> protocol, Port |-> port]
Service(uid, ns, ip, ports) == [UID |-> uid, Namespace |-> ns, ip |-> ip, Ports |-> ports]
NoService == Service("", "", FALSE, <<>>)

\* The service object behind an item of the list kClient.Services(ns).List
\* returned to the pass: the cluster-IP service "s" or the headless "h".
ListedService(item) ==
    Service(IF item.ip THEN "s" ELSE "h", item.ns, item.ip, <<ServicePort("TCP", 80)>>)

\* The dataplane: one flow per port of a service, tagged with a VNID.
Flow(uid, port) == [UID |-> uid, Protocol |-> port.Protocol, Port |-> port.Port]
Flows(svc) == {Flow(svc.UID, svc.Ports[i]) : i \in 1..Len(svc.Ports)}

\* What a successful AddServiceRules(svc, netid) and DeleteServiceRules(svc)
\* do to the installed flows; a failed call leaves them alone.
AddServiceRules(r, svc, netid) ==
    [f \in (DOMAIN r) \cup Flows(svc) |-> IF f \in Flows(svc) THEN netid ELSE r[f]]

DeleteServiceRules(r, svc) ==
    [f \in (DOMAIN r) \ Flows(svc) |-> r[f]]

\* -------------------------------------------------------- updatePodNetwork
\* The local err is tested right after the call that sets it and never read
\* again: it is the ok of each step, not a field.
NoPass == [pc |-> "off", namespace |-> "", oldNetID |-> 0, netID |-> 0,
           runPods |-> NoItems, otherPods |-> NoItems, services |-> NoItems,
           i |-> 0]

\* The call updatePodNetwork(namespace, oldNetID, netID).
updatePodNetwork(namespace, old, netID) ==
    [NoPass EXCEPT !.pc = "list_pods", !.namespace = namespace,
                   !.oldNetID = old, !.netID = netID]

\* history: one more call of the pass, with the VNID it was given and its outcome
Logged(call, item, netID, ok) ==
    /\ log' = Append(log, [call |-> call, item |-> item, netID |-> netID])
    /\ firstFail' = IF ~ok /\ firstFail = 0 THEN Len(log) + 1 ELSE firstFail

\* runPods, otherPods, err := node.GetLocalPods(namespace); an error is logged.
pass_GetLocalPods(ok) ==
    /\ pass.pc = "list_pods"
    /\ pass' = [pass EXCEPT
                  !.pc = "list_services",
                  !.runPods = IF ok THEN GetLocalPods(pass.namespace).runPods ELSE NoItems,
                  !.otherPods = IF ok THEN GetLocalPods(pass.namespace).otherPods ELSE NoItems]
    /\ Logged("GetLocalPods", Item(pass.namespace, "list", 0, FALSE), 0, ok)
    /\ UNCHANGED rules

\* services, err := ...Services(namespace).List(); on error services = empty list.
pass_ListServices(ok) ==
    /\ pass.pc = "list_services"
    /\ pass' = [pass EXCEPT
                  !.pc = "update_pods", !.i = 1,
                  !.services = IF ok THEN ListServices(pass.namespace) ELSE NoItems]
    /\ Logged("ListServices", Item(pass.namespace, "list", 0, FALSE), 0, ok)
    /\ UNCHANGED rules

\* Faulty variant: a failed UpdatePod ends the pass (return instead of the log line).
pass_UpdatePod_abort(ok) ==
    /\ pass.pc = "update_pods"
    /\ pass.i <= Len(pass.runPods)
    /\ pass' = [pass EXCEPT !.i = pass.i + 1,
                            !.pc = IF ok THEN "update_pods" ELSE "return"]
    /\ Logged("UpdatePod", pass.runPods[pass.i], 0, ok)
    /\ UNCHANGED rules

\* for _, pod := range runPods { err = node.UpdatePod(pod); log on error }
pass_UpdatePod(ok) ==
    /\ pass.pc = "update_pods"
    /\ pass.i <= Len(pass.runPods)
    /\ pass' = [pass EXCEPT !.i = pass.i + 1]
    /\ Logged("UpdatePod", pass.runPods[pass.i], 0, ok)
    /\ UNCHANGED rules

pass_UpdatePodsDone ==
    /\ pass.pc = "update_pods"
    /\ pass.i > Len(pass.runPods)
    /\ pass' = [pass EXCEPT !.pc = "delete_pods", !.i = 1]
    /\ UNCHANGED <<log, firstFail>>
    /\ UNCHANGED rules

\* for _, pod := range otherPods { err := ...Pods(namespace).Delete(...) }
pass_DeletePod(ok) ==
    /\ pass.pc = "delete_pods"
    /\ pass.i <= Len(pass.otherPods)
    /\ pass' = [pass EXCEPT !.i = pass.i + 1]
    /\ Logged("DeletePod", pass.otherPods[pass.i], 0, ok)
    /\ UNCHANGED rules

pass_DeletePodsDone ==
    /\ pass.pc = "delete_pods"
    /\ pass.i > Len(pass.otherPods)
    /\ pass' = [pass EXCEPT !.pc = "services", !.i = 1]
    /\ UNCHANGED <<log, firstFail>>
    /\ UNCHANGED rules

\* for _, svc := range services.Items { if !IsServiceIPSet(&svc) { continue }
pass_SkipHeadless ==
    /\ pass.pc = "services"
    /\ pass.i <= Len(pass.services)
    /\ ~IsServiceIPSet(pass.services[pass.i])
    /\ pass' = [pass EXCEPT !.i = pass.i + 1]
    /\ UNCHANGED <<log, firstFail>>
    /\ UNCHANGED rules

\* Faulty variant: a failed DeleteServiceRules skips the service's AddServiceRules
\* (continue in the error branch).
pass_DeleteServiceRules_skipAdd(ok) ==
    /\ pass.pc = "services"
    /\ pass.i <= Len(pass.services)
    /\ IsServiceIPSet(pass.services[pass.i])
    /\ pass' = [pass EXCEPT !.pc = IF ok THEN "add_rules" ELSE "services",
                            !.i = IF ok THEN pass.i ELSE pass.i + 1]
    /\ Logged("DeleteServiceRules", pass.services[pass.i], 0, ok)
    /\ rules' = IF ok THEN DeleteServiceRules(rules, ListedService(pass.services[pass.i]))
                     ELSE rules

\* if err = node.DeleteServiceRules(&svc); err != nil { log }
pass_DeleteServiceRules(ok) ==
    /\ pass.pc = "services"
    /\ pass.i <= Len(pass.services)
    /\ IsServiceIPSet(pass.services[pass.i])
    /\ pass' = [pass EXCEPT !.pc = "add_rules"]
    /\ Logged("DeleteServiceRules", pass.services[pass.i], 0, ok)
    /\ rules' = IF ok THEN DeleteServiceRules(rules, ListedService(pass.services[pass.i]))
                     ELSE rules

\* if err = node.AddServiceRules(&svc, netID); err != nil { log }
pass_AddServiceRules(ok) ==
    /\ pass.pc = "add_rules"
    /\ pass' = [pass EXCEPT !.pc = "services", !.i = pass.i + 1]
    /\ Logged("AddServiceRules", pass.services[pass.i], pass.netID, ok)
    /\ rules' = IF ok THEN AddServiceRules(rules, ListedService(pass.services[pass.i]),
                                          pass.netID)
                     ELSE rules

pass_ServicesDone ==
    /\ pass.pc = "services"
    /\ pass.i > Len(pass.services)
    /\ pass' = [pass EXCEPT !.pc = "return"]
    /\ UNCHANGED <<log, firstFail>>
    /\ UNCHANGED rules

\* One step of the pass; every collaborator call may succeed or fail.
updatePodNetworkStep ==
    /\ \/ \E ok \in BOOLEAN : pass_GetLocalPods(ok)
       \/ \E ok \in BOOLEAN : pass_ListServices(ok)
       \/ \E ok \in BOOLEAN : pass_UpdatePod(ok)
       \/ pass_UpdatePodsDone
       \/ \E ok \in BOOLEAN : pass_DeletePod(ok)
       \/ pass_DeletePodsDone
       \/ pass_SkipHeadless
       \/ \E ok \in BOOLEAN : pass_DeleteServiceRules(ok)
       \/ \E ok \in BOOLEAN : pass_AddServiceRules(ok)
       \/ pass_ServicesDone
    /\ UNCHANGED <<ids, namespaces, lock, frame, calls>>
    /\ UNCHANGED <<batch, idx, hpc, todo, oldNetID, wait, evPre, handled, passes,
                   failedBefore>>

\* ---------------------------------------------------- nodeHandleNetnsEvent
Event(type, name, id) == [Type |-> type, NetName |-> name, NetID |-> id]
EventTypes == {"Added", "Removed", "Other"}
Events == {Event(t, n, v) : t \in {"Added", "Removed"}, n \in EventNames, v \in VNIDs}
              \cup {Event("Other", n, 0) : n \in EventNames}

RECURSIVE SeqsUpTo(_, _)
SeqsUpTo(S, n) ==
    IF n = 0 THEN {<<>>}
    ELSE LET shorter == SeqsUpTo(S, n - 1)
         IN  shorter \cup {Append(q, e) : q \in shorter, e \in S}

Batches == SeqsUpTo(Events, MaxBatch) \ {<<>>}

\* Faulty variant: the batch is walked from its end.
EventAt_reversed(b, k) == b[Len(b) + 1 - k]

\* for _, evt := range batch: the evt of iteration k
EventAt(b, k) == b[k]

\* Faulty variant: the err == nil test forgotten, so that the 0 GetVNID returns with
\* its error counts as VNID 0.
Unchanged_noErrTest(err, old, netID) == old = netID

\* case EventAdded: (err == nil) && (oldNetID == netns.NetID) { break }
Unchanged(err, old, netID) == (~err) /\ (old = netID)

\* Faulty variant: the entry is unset before the pass.
RemovedSteps_unsetFirst == <<"unsetVNID", "updatePodNetwork">>

\* The statements of case EventAdded after the comparison, and of case
\* EventRemoved, in program order.
AddedSteps == <<"setVNID", "updatePodNetwork">>
RemovedSteps == <<"updatePodNetwork", "unsetVNID">>

\* The arguments of the case's updatePodNetwork call.
PassArgs(evt, old) ==
    IF evt.Type = "Added"
    THEN [namespace |-> evt.NetName, oldNetID |-> old, netID |-> evt.NetID]
    ELSE [namespace |-> evt.NetName, oldNetID |-> evt.NetID, netID |-> GlobalVNID]

evt == EventAt(batch, idx)

NoSnapshot == [ids |-> EmptyMap, namespaces |-> EmptyMap]

\* The handler goes on with the statements t of the current case: it starts
\* the first, or, when none is left, the case is over.
Continue(t, old) ==
    /\ todo' = IF t = <<>> THEN t ELSE Tail(t)
    /\ IF t = <<>>
       THEN /\ hpc' = "next"
            /\ frame' = [frame EXCEPT !["netns"] = NoFrame]
            /\ pass' = NoPass
            /\ UNCHANGED passes
       ELSE IF Head(t) = "updatePodNetwork"
       THEN /\ hpc' = "pass"
            /\ frame' = [frame EXCEPT !["netns"] = NoFrame]
            /\ pass' = updatePodNetwork(PassArgs(evt, old).namespace,
                                        PassArgs(evt, old).oldNetID,
                                        PassArgs(evt, old).netID)
            /\ passes' = Append(passes, [idx |-> idx,
                                         namespace |-> PassArgs(evt, old).namespace,
                                         oldNetID |-> PassArgs(evt, old).oldNetID,
                                         netID |-> PassArgs(evt, old).netID,
                                         table |-> [ids |-> ids, namespaces |-> namespaces]])
       ELSE /\ hpc' = "call"
            /\ frame' = [frame EXCEPT !["netns"] =
                            Invoke(Head(t), evt.NetName,
                                   IF Head(t) = "setVNID" THEN evt.NetID ELSE 0)]
            /\ pass' = NoPass
            /\ UNCHANGED passes

\* The watch delivers a batch to the handler.
Deliver(b) ==
    /\ hpc = "idle"
    /\ batch' = b
    /\ idx' = 1
    /\ hpc' = "dispatch"
    /\ UNCHANGED <<ids, namespaces, lock, frame, calls>>
    /\ UNCHANGED <<todo, oldNetID, pass, wait, evPre, handled, passes, log, firstFail, failedBefore>>

\* Faulty variant: no default case, whatever is not Added is taken as Removed.
SwitchCase_noDefault(type) ==
    IF type = "Added" THEN "EventAdded" ELSE "EventRemoved"

\* The case of switch evt.Type that an event type selects.
SwitchCase(type) ==
    IF type = "Added" THEN "EventAdded"
    ELSE IF type = "Removed" THEN "EventRemoved"
    ELSE "default"

\* switch evt.Type
Dispatch ==
    /\ hpc = "dispatch"
    /\ evPre' = [ids |-> ids, namespaces |-> namespaces]
    /\ handled' = Append(handled, evt)
    /\ log' = <<>>
    /\ firstFail' = 0
    /\ failedBefore' = (failedBefore \/ firstFail # 0)
    /\ oldNetID' = 0
    /\ CASE SwitchCase(evt.Type) = "EventAdded" ->
               \* oldNetID, err := node.vnids.GetVNID(netns.NetName)
               /\ frame' = [frame EXCEPT !["netns"] = Invoke("GetVNID", evt.NetName, 0)]
               /\ hpc' = "added_get"
               /\ UNCHANGED <<todo, pass, passes>>
         [] SwitchCase(evt.Type) = "EventRemoved" -> Continue(RemovedSteps, 0)
         [] OTHER ->
               \* default: glog.Error("Internal error: unknown event type")
               /\ hpc' = "next"
               /\ UNCHANGED <<frame, todo, pass, passes>>
    /\ UNCHANGED <<ids, namespaces, lock, calls, batch, idx, wait>>

\* case EventAdded, once GetVNID has returned
AddedCompare ==
    /\ hpc = "added_get"
    /\ frame["netns"].pc = "ret"
    /\ oldNetID' = frame["netns"].ret.id
    /\ IF Unchanged(frame["netns"].ret.err, frame["netns"].ret.id, evt.NetID)
       THEN Continue(<<>>, frame["netns"].ret.id)
       ELSE Continue(AddedSteps, frame["netns"].ret.id)
    /\ UNCHANGED <<ids, namespaces, lock, calls, batch, idx, wait>>
    /\ UNCHANGED <<evPre, handled, log, firstFail, failedBefore>>

\* setVNID or unsetVNID has returned (unsetVNID's result is dropped)
CallReturn ==
    /\ hpc = "call"
    /\ frame["netns"].pc = "ret"
    /\ Continue(todo, oldNetID)
    /\ UNCHANGED <<ids, namespaces, lock, calls, batch, idx, oldNetID, wait>>
    /\ UNCHANGED <<evPre, handled, log, firstFail, failedBefore>>

\* updatePodNetwork has returned
PassReturn ==
    /\ hpc = "pass"
    /\ pass.pc = "return"
    /\ Continue(todo, oldNetID)
    /\ UNCHANGED <<ids, namespaces, lock, calls, batch, idx, oldNetID, wait>>
    /\ UNCHANGED <<evPre, handled, log, firstFail, failedBefore>>

\* the end of one iteration of the range loop, and of the handler
NextEvent ==
    /\ hpc = "next"
    /\ IF idx < Len(batch)
       THEN /\ idx' = idx + 1
            /\ hpc' = "dispatch"
            /\ UNCHANGED <<batch, evPre, handled, passes, log, firstFail, failedBefore>>
       ELSE /\ idx' = 0
            /\ hpc' = "idle"
            /\ batch' = <<>>
            /\ evPre' = NoSnapshot
            /\ handled' = <<>>
            /\ passes' = <<>>
            /\ log' = <<>>
            /\ firstFail' = 0
            /\ failedBefore' = FALSE
    /\ UNCHANGED <<ids, namespaces, lock, frame, calls, todo, oldNetID, pass, wait>>

nodeHandleNetnsEvent ==
    \/ Dispatch
    \/ AddedCompare
    \/ CallReturn
    \/ PassReturn
    \/ NextEvent

\* ------------------------------------------------------------ another task
\* A task other than the namespace watcher (pod setup, the service watcher)
\* looks a namespace up with GetVNID or with WaitAndGetVNID.
NoWait == [pc |-> "idle", name |-> "", i |-> 0, attempts |-> 0,
           allAbsent |-> TRUE, id |-> 0, err |-> FALSE]

TaskGetVNID(name) ==
    /\ wait.pc = "idle"
    /\ frame["task"].pc = "idle"
    /\ frame' = [frame EXCEPT !["task"] = Invoke("GetVNID", name, 0)]
    /\ UNCHANGED <<ids, namespaces, lock, calls>>
    /\ UNCHANGED nodeVars

TaskGetVNIDReturn ==
    /\ wait.pc = "idle"
    /\ frame["task"].pc = "ret"
    /\ frame' = [frame EXCEPT !["task"] = NoFrame]
    /\ UNCHANGED <<ids, namespaces, lock, calls>>
    /\ UNCHANGED nodeVars

\* Faulty variant: the loop bound off by one (i <= backoff.Steps).
BackoffContinues_offByOne(i) == i + 1 <= Steps

\* utilwait.ExponentialBackoff's loop, for i := 0; i < backoff.Steps; i++:
\* whether another iteration follows iteration i
BackoffContinues(i) == i + 1 < Steps

\* WaitAndGetVNID(name): ExponentialBackoff calls the condition at once (no
\* sleep before iteration 0).
WaitAndGetVNID_call(name) ==
    /\ wait.pc = "idle"
    /\ frame["task"].pc = "idle"
    /\ wait' = [NoWait EXCEPT !.pc = "attempt", !.name = name, !.attempts = 1]
    /\ frame' = [frame EXCEPT !["task"] = Invoke("GetVNID", name, 0)]
    /\ UNCHANGED <<ids, namespaces, lock, calls>>
    /\ UNCHANGED <<batch, idx, hpc, todo, oldNetID, pass, evPre, handled, passes,
                   log, firstFail, failedBefore>>

\* The condition id, err = vmap.GetVNID(name); return err == nil, nil has
\* run: ExponentialBackoff returns nil, or sleeps and calls it again, or gives
\* up with ErrWaitTimeout, and WaitAndGetVNID returns (id, nil) or (0, error).
WaitAndGetVNID_condition ==
    /\ wait.pc = "attempt"
    /\ frame["task"].pc = "ret"
    /\ LET r == frame["task"].ret
           seen == [wait EXCEPT !.allAbsent = wait.allAbsent /\ r.err]
       IN  IF ~r.err
           THEN /\ wait' = [seen EXCEPT !.pc = "done", !.id = r.id, !.err = FALSE]
                /\ frame' = [frame EXCEPT !["task"] = NoFrame]
           ELSE IF BackoffContinues(wait.i)
           THEN /\ wait' = [seen EXCEPT !.i = wait.i + 1, !.attempts = wait.attempts + 1]
                /\ frame' = [frame EXCEPT !["task"] = Invoke("GetVNID", wait.name, 0)]
           ELSE /\ wait' = [seen EXCEPT !.pc = "done", !.id = 0, !.err = TRUE]
                /\ frame' = [frame EXCEPT !["task"] = NoFrame]
    /\ UNCHANGED <<ids, namespaces, lock, calls>>
    /\ UNCHANGED <<batch, idx, hpc, todo, oldNetID, pass, evPre, handled, passes,
                   log, firstFail, failedBefore>>

\* The caller of WaitAndGetVNID takes the result.
WaitAndGetVNID_return ==
    /\ wait.pc = "done"
    /\ wait' = NoWait
    /\ UNCHANGED <<ids, namespaces, lock, frame, calls>>
    /\ UNCHANGED <<batch, idx, hpc, todo, oldNetID, pass, evPre, handled, passes,
                   log, firstFail, failedBefore>>

NetnsMethodStep ==
    vmapStep("netns") /\ UNCHANGED calls /\ UNCHANGED nodeVars

NodeMethodStep ==
    \E p \in {"netns", "task"} :
        vmapStep(p) /\ UNCHANGED calls /\ UNCHANGED nodeVars

\* ------------------------------------------------------------ watchServices
\* A service as the watcher reads it: serv.UID, serv.Namespace, whether a
\* cluster IP is set, and serv.Spec.Ports (each port's Protocol and Port).
\* The port lists the services of the model go through: one port, the same
\* with another protocol, with another number, and with a second port added.
PortLists ==
    {<<ServicePort("TCP", 80)>>,
     <<ServicePort("UDP", 80)>>,
     <<ServicePort("TCP", 443)>>,
     <<ServicePort("TCP", 80), ServicePort("TCP", 443)>>}

\* The services of the cluster: "s" has a cluster IP, "h" is headless.
ServiceObjects ==
    {Service("s", "a", TRUE, ports) : ports \in PortLists}
        \cup {Service("h", "a", FALSE, <<ServicePort("TCP", 80)>>)}

\* cache.Delta: its Type and its Object
Delta(type, serv) == [Type |-> type, Object |-> serv]
DeltaTypes == {"Sync", "Added", "Updated", "Deleted"}
Deltas == {Delta(t, o) : t \in DeltaTypes, o \in ServiceObjects}
NoDelta == Delta("", NoService)

\* Faulty variant: only the port numbers are compared.
isServiceChanged_portOnly(oldsvc, newsvc) ==
    IF Len(oldsvc.Ports) = Len(newsvc.Ports)
    THEN \E i \in 1..Len(oldsvc.Ports) : oldsvc.Ports[i].Port # newsvc.Ports[i].Port
    ELSE TRUE

isServiceChanged(oldsvc, newsvc) ==
    IF Len(oldsvc.Ports) = Len(newsvc.Ports)
    THEN \E i \in 1..Len(oldsvc.Ports) :
             \/ oldsvc.Ports[i].Protocol # newsvc.Ports[i].Protocol
             \/ oldsvc.Ports[i].Port # newsvc.Ports[i].Port
    ELSE TRUE

NoSw == [pc |-> "idle", delta |-> NoDelta, oldsvc |-> NoService, exists |-> FALSE,
         netid |-> 0, err |-> FALSE, calls |-> <<>>, lookup |-> "none"]

\* history: one more dataplane call of the watcher, and its outcome
SvcCall(call, svc, netid, ok) ==
    [call |-> call, svc |-> svc, netid |-> netid, ok |-> ok]

\* RunEventQueue hands the next delta to the function of watchServices.
svc_Deliver(d) ==
    /\ sw.pc = "idle"
    /\ sw' = [NoSw EXCEPT !.pc = "filter", !.delta = d]
    /\ UNCHANGED <<services, rules>>

\* Faulty variant: the cluster-IP test is missing, headless services go on
\* to the switch.
svc_Filter_noIPCheck ==
    /\ sw.pc = "filter"
    /\ sw' = [sw EXCEPT !.pc =
                 IF sw.delta.Type \in {"Sync", "Added", "Updated"} THEN "compare"
                 ELSE IF sw.delta.Type = "Deleted" THEN "deleted"
                 ELSE "return"]
    /\ UNCHANGED <<services, rules>>

\* if !kapi.IsServiceIPSet(serv) { return nil }; switch delta.Type
svc_Filter ==
    /\ sw.pc = "filter"
    /\ sw' = [sw EXCEPT !.pc =
                 IF ~IsServiceIPSet(sw.delta.Object) THEN "return"
                 ELSE IF sw.delta.Type \in {"Sync", "Added", "Updated"} THEN "compare"
                 ELSE IF sw.delta.Type = "Deleted" THEN "deleted"
                 ELSE "return"]
    /\ UNCHANGED <<services, rules>>

\* oldsvc, exists := services[string(serv.UID)]; if exists { if
\* !isServiceChanged(oldsvc, serv) { break } ... }
svc_Compare ==
    /\ sw.pc = "compare"
    /\ LET uid == sw.delta.Object.UID
           exists == uid \in DOMAIN services
           oldsvc == IF exists THEN services[uid] ELSE NoService
       IN  sw' = [sw EXCEPT !.exists = exists, !.oldsvc = oldsvc,
                            !.pc = IF ~exists THEN "lookup"
                                   ELSE IF ~isServiceChanged(oldsvc, sw.delta.Object)
                                   THEN "return"
                                   ELSE "delete_old"]
    /\ UNCHANGED <<services, rules>>

\* if err := node.DeleteServiceRules(oldsvc); err != nil { glog.Error(err) }
svc_DeleteOld(ok) ==
    /\ sw.pc = "delete_old"
    /\ rules' = IF ok THEN DeleteServiceRules(rules, sw.oldsvc) ELSE rules
    /\ sw' = [sw EXCEPT !.pc = "lookup",
                        !.calls = Append(sw.calls,
                                         SvcCall("DeleteServiceRules", sw.oldsvc, 0, ok))]
    /\ UNCHANGED services

\* netid, err := node.vnids.WaitAndGetVNID(serv.Namespace): the call
svc_Lookup ==
    /\ sw.pc = "lookup"
    /\ WaitAndGetVNID_call(sw.delta.Object.Namespace)
    /\ sw' = [sw EXCEPT !.pc = "waiting"]
    /\ UNCHANGED <<services, rules>>

\* Faulty variant: the error of WaitAndGetVNID is dropped and the function
\* goes on to AddServiceRules with the zero netid.
svc_GotVNID_ignoreError ==
    /\ sw.pc = "waiting"
    /\ WaitAndGetVNID_return
    /\ sw' = [sw EXCEPT !.netid = wait.id, !.err = wait.err,
                        !.lookup = IF wait.err THEN "failed" ELSE "ok",
                        !.pc = "add_rules"]
    /\ UNCHANGED <<services, rules>>

\* ... and its return: if err != nil { return fmt.Errorf("skipped ...") }
\* (lookup is history: how this delta's WaitAndGetVNID ended)
svc_GotVNID ==
    /\ sw.pc = "waiting"
    /\ WaitAndGetVNID_return
    /\ sw' = [sw EXCEPT !.netid = wait.id, !.err = wait.err,
                        !.lookup = IF wait.err THEN "failed" ELSE "ok",
                        !.pc = IF wait.err THEN "return" ELSE "add_rules"]
    /\ UNCHANGED <<services, rules>>

\* if err = node.AddServiceRules(serv, netid); err != nil { return err }
svc_AddRules(ok) ==
    /\ sw.pc = "add_rules"
    /\ rules' = IF ok THEN AddServiceRules(rules, sw.delta.Object, sw.netid) ELSE rules
    /\ sw' = [sw EXCEPT !.pc = IF ok THEN "store" ELSE "return", !.err = ~ok,
                        !.calls = Append(sw.calls,
                                         SvcCall("AddServiceRules", sw.delta.Object,
                                                 sw.netid, ok))]
    /\ UNCHANGED services

\* services[string(serv.UID)] = serv
svc_Store ==
    /\ sw.pc = "store"
    /\ services' = MapPut(services, sw.delta.Object.UID, sw.delta.Object)
    /\ sw' = [sw EXCEPT !.pc = "return"]
    /\ UNCHANGED rules

\* case cache.Deleted: delete(services, string(serv.UID)); if err :=
\* node.DeleteServiceRules(serv); err != nil { return err }
svc_Deleted(ok) ==
    /\ sw.pc = "deleted"
    /\ services' = MapDelete(services, sw.delta.Object.UID)
    /\ rules' = IF ok THEN DeleteServiceRules(rules, sw.delta.Object) ELSE rules
    /\ sw' = [sw EXCEPT !.pc = "return", !.err = ~ok,
                        !.calls = Append(sw.calls,
                                         SvcCall("DeleteServiceRules", sw.delta.Object,
                                                 0, ok))]

\* The function returns (nil or an error) and RunEventQueue goes on.
svc_Return ==
    /\ sw.pc = "return"
    /\ sw' = NoSw
    /\ UNCHANGED <<services, rules>>

\* RunEventQueue returned and utilwait.Forever calls watchServices again:
\* services := make(map[string]*kapi.Service)
watchServices ==
    /\ sw.pc = "idle"
    /\ services' = EmptyMap
    /\ UNCHANGED <<rules, sw>>

\* One step of the function of watchServices that touches only the
\* watcher's own state and the dataplane.
watchServicesStep ==
    /\ \/ svc_Filter
       \/ svc_Compare
       \/ \E ok \in BOOLEAN : svc_DeleteOld(ok)
       \/ \E ok \in BOOLEAN : svc_AddRules(ok)
       \/ svc_Store
       \/ \E ok \in BOOLEAN : svc_Deleted(ok)
       \/ svc_Return
    /\ UNCHANGED <<ids, namespaces, lock, frame, calls>>
    /\ UNCHANGED nodeVars

\* The namespace watcher's calls into the table, setVNID(netns.NetName,
\* netns.NetID) and unsetVNID(netns.NetName), as the service watcher sees
\* them: another task changing the table at any time.
Table_setVNID(name, id) ==
    /\ frame["netns"].pc = "idle"
    /\ frame' = [frame EXCEPT !["netns"] = Invoke("setVNID", name, id)]
    /\ UNCHANGED <<ids, namespaces, lock, calls>>
    /\ UNCHANGED nodeVars

Table_unsetVNID(name) ==
    /\ frame["netns"].pc = "idle"
    /\ frame' = [frame EXCEPT !["netns"] = Invoke("unsetVNID", name, 0)]
    /\ UNCHANGED <<ids, namespaces, lock, calls>>
    /\ UNCHANGED nodeVars

Table_return ==
    /\ frame["netns"].pc = "ret"
    /\ frame' = [frame EXCEPT !["netns"] = NoFrame]
    /\ UNCHANGED <<ids, namespaces, lock, calls>>
    /\ UNCHANGED nodeVars

\* ----------------------------------------------- the table under its API
\* Any sequence of setVNID and unsetVNID calls by one task ("caller"), with
\* another task ("reader") calling GetVNID and GetNamespaces concurrently.
\* calls remembers the last two mutating calls with the table as it was when
\* each was made.
Snapshot == [ids |-> ids, namespaces |-> namespaces]

Remember(op, name, id) ==
    LET rec == [op |-> op, name |-> name, id |-> id, pre |-> Snapshot,
                done |-> FALSE, ret |-> NoRet]
    IN  IF Len(calls) = 2 THEN <<calls[2], rec>> ELSE Append(calls, rec)

CallSetVNID(name, id) ==
    /\ frame["caller"].pc = "idle"
    /\ frame' = [frame EXCEPT !["caller"] = Invoke("setVNID", name, id)]
    /\ calls' = Remember("setVNID", name, id)
    /\ UNCHANGED <<ids, namespaces, lock>>
    /\ UNCHANGED nodeVars

CallUnsetVNID(name) ==
    /\ frame["caller"].pc = "idle"
    /\ frame' = [frame EXCEPT !["caller"] = Invoke("unsetVNID", name, 0)]
    /\ calls' = Remember("unsetVNID", name, 0)
    /\ UNCHANGED <<ids, namespaces, lock>>
    /\ UNCHANGED nodeVars

CallerReturn ==
    /\ frame["caller"].pc = "ret"
    /\ calls' = [calls EXCEPT ![Len(calls)].done = TRUE,
                              ![Len(calls)].ret = frame["caller"].ret]
    /\ frame' = [frame EXCEPT !["caller"] = NoFrame]
    /\ UNCHANGED <<ids, namespaces, lock>>
    /\ UNCHANGED nodeVars

ReaderGetVNID(name) ==
    /\ frame["reader"].pc = "idle"
    /\ frame' = [frame EXCEPT !["reader"] = Invoke("GetVNID", name, 0)]
    /\ UNCHANGED <<ids, namespaces, lock, calls>>
    /\ UNCHANGED nodeVars

ReaderGetNamespaces(id) ==
    /\ frame["reader"].pc = "idle"
    /\ frame' = [frame EXCEPT !["reader"] = Invoke("GetNamespaces", "", id)]
    /\ UNCHANGED <<ids, namespaces, lock, calls>>
    /\ UNCHANGED nodeVars

ReaderReturn ==
    /\ frame["reader"].pc = "ret"
    /\ frame' = [frame EXCEPT !["reader"] = NoFrame]
    /\ UNCHANGED <<ids, namespaces, lock, calls>>
    /\ UNCHANGED nodeVars

TableMethodStep ==
    \E p \in {"caller", "reader"} :
        /\ vmapStep(p) \/ GetNamespaces_body(p)
        /\ UNCHANGED calls
        /\ UNCHANGED nodeVars

\* ------------------------------------------------------------ VnidStartNode
\* An entry of the list GetNetNamespaces returns.
NetNamespace(name, id) == [NetName |-> name, NetID |-> id]

\* The lists the store can return: every namespace at most once, any order.
NetnsLists ==
    {l \in SeqsUpTo({NetNamespace(n, v) : n \in Names, v \in VNIDs}, Cardinality(Names)) :
        \A i, j \in 1..Len(l) : i # j => l[i].NetName # l[j].NetName}

\* VnidStartNode's position (pc), the rest of netnsList, the error it
\* returned, and the two utilwait.Forever loops: "off" (not launched),
\* "calling" (about to call its function) or "running" (inside it).
NoBoot == [pc |-> "off", list |-> <<>>, err |-> FALSE, netns |-> "off", svc |-> "off"]

\* The call VnidStartNode(), which calls populateVNIDs.
VnidStartNode ==
    /\ boot.pc = "off"
    /\ boot' = [boot EXCEPT !.pc = "list"]

\* Faulty variant: VnidStartNode goes on to launch the watchers when
\* populateVNIDs returned an error.
populateVNIDs_list_ignoreError(ok, l) ==
    /\ boot.pc = "list"
    /\ boot' = IF ok THEN [boot EXCEPT !.pc = "set", !.list = l]
               ELSE [boot EXCEPT !.pc = "launch_netns", !.err = TRUE]

\* netnsList, err := eClient.GetNetNamespaces(ctx, network); if err != nil
\* { return err }, and VnidStartNode returns that error.
populateVNIDs_list(ok, l) ==
    /\ boot.pc = "list"
    /\ boot' = IF ok THEN [boot EXCEPT !.pc = "set", !.list = l]
               ELSE [boot EXCEPT !.pc = "failed", !.err = TRUE]

\* for _, net := range netnsList { vmap.setVNID(net.NetName, net.NetID) }
populateVNIDs_setVNID ==
    /\ boot.pc = "set"
    /\ boot.list # <<>>
    /\ frame["caller"].pc = "idle"
    /\ frame' = [frame EXCEPT !["caller"] =
                    Invoke("setVNID", Head(boot.list).NetName, Head(boot.list).NetID)]
    /\ boot' = [boot EXCEPT !.pc = "calling"]

populateVNIDs_next ==
    /\ boot.pc = "calling"
    /\ frame["caller"].pc = "ret"
    /\ frame' = [frame EXCEPT !["caller"] = NoFrame]
    /\ boot' = [boot EXCEPT !.pc = "set", !.list = Tail(boot.list)]

\* return nil, and err == nil in VnidStartNode
populateVNIDs_return ==
    /\ boot.pc = "set"
    /\ boot.list = <<>>
    /\ boot' = [boot EXCEPT !.pc = "launch_netns"]

\* go utilwait.Forever(node.watchNetNamespaces, 0)
Launch_watchNetNamespaces ==
    /\ boot.pc = "launch_netns"
    /\ boot' = [boot EXCEPT !.pc = "launch_svc", !.netns = "calling"]

\* go utilwait.Forever(node.watchServices, 0); return nil
Launch_watchServices ==
    /\ boot.pc = "launch_svc"
    /\ boot' = [boot EXCEPT !.pc = "ready", !.svc = "calling"]

\* Faulty variant: the loop ends when its function has returned once.
LoopAfterReturn_once == "off"

\* utilwait.Forever(f, 0): when f has returned, the loop calls it again.
LoopAfterReturn == "calling"

\* Forever calls watchNetNamespaces, which runs the watch (RunNetnsWatch).
watchNetNamespaces ==
    /\ boot.netns = "calling"
    /\ boot' = [boot EXCEPT !.netns = "running"]

\* The watch fails or ends between two batches: watchNetNamespaces returns.
watchNetNamespaces_return ==
    /\ boot.netns = "running"
    /\ hpc = "idle"
    /\ boot' = [boot EXCEPT !.netns = LoopAfterReturn]

\* Forever calls watchServices (a fresh shadow cache, then RunEventQueue).
Forever_watchServices ==
    /\ boot.svc = "calling"
    /\ watchServices
    /\ boot' = [boot EXCEPT !.svc = "running"]

\* RunEventQueue ends between two deltas: watchServices returns.
watchServices_return ==
    /\ boot.svc = "running"
    /\ sw.pc = "idle"
    /\ boot' = [boot EXCEPT !.svc = LoopAfterReturn]

\* A step of VnidStartNode itself.
VnidStartNodeStep ==
    /\ \/ VnidStartNode
       \/ \E ok \in BOOLEAN, l \in NetnsLists : populateVNIDs_list(ok, l)
       \/ populateVNIDs_return
       \/ Launch_watchNetNamespaces
       \/ Launch_watchServices
    /\ UNCHANGED frame

\* A table method called by VnidStartNode, by a watcher or by a lookup runs on.
StartMethodStep ==
    \E p \in {"caller", "netns", "task"} :
        vmapStep(p) /\ UNCHANGED calls /\ UNCHANGED nodeVars

Init ==
    /\ ids = newNodeVNIDMap.ids
    /\ namespaces = newNodeVNIDMap.namespaces
    /\ lock = NoHolder
    /\ frame = [p \in Procs |-> NoFrame]
    /\ calls = <<>>
    /\ batch = <<>>
    /\ idx = 0
    /\ hpc = "idle"
    /\ todo = <<>>
    /\ oldNetID = 0
    /\ pass = NoPass
    /\ wait = NoWait
    /\ evPre = NoSnapshot
    /\ handled = <<>>
    /\ passes = <<>>
    /\ log = <<>>
    /\ firstFail = 0
    /\ failedBefore = FALSE
    /\ services = EmptyMap
    /\ rules = EmptyMap
    /\ sw = NoSw
    /\ boot = NoBoot

NextTable ==
    \/ (\E n \in Names, v \in VNIDs : CallSetVNID(n, v)) /\ UNCHANGED <<svcVars, boot>>
    \/ (\E n \in Names : CallUnsetVNID(n)) /\ UNCHANGED <<svcVars, boot>>
    \/ CallerReturn /\ UNCHANGED <<svcVars, boot>>
    \/ (\E n \in Names : ReaderGetVNID(n)) /\ UNCHANGED <<svcVars, boot>>
    \/ (\E v \in VNIDs : ReaderGetNamespaces(v)) /\ UNCHANGED <<svcVars, boot>>
    \/ ReaderReturn /\ UNCHANGED <<svcVars, boot>>
    \/ TableMethodStep /\ UNCHANGED <<svcVars, boot>>

SpecTable == Init /\ [][NextTable]_vars

\* The namespace watcher handling one batch after another.
Next ==
    \/ (\E b \in Batches : Deliver(b)) /\ UNCHANGED <<svcVars, boot>>
    \/ nodeHandleNetnsEvent /\ UNCHANGED <<svcVars, boot>>
    \/ updatePodNetworkStep /\ UNCHANGED <<services, sw, boot>>
    \/ NetnsMethodStep /\ UNCHANGED <<svcVars, boot>>

Spec == Init /\ [][Next]_vars

\* The namespace watcher handling events one at a time, with another task
\* looking the watched namespaces up through GetVNID and WaitAndGetVNID.
NextWait ==
    \/ (\E e \in Events : Deliver(<<e>>)) /\ UNCHANGED <<svcVars, boot>>
    \/ nodeHandleNetnsEvent /\ UNCHANGED <<svcVars, boot>>
    \/ updatePodNetworkStep /\ UNCHANGED <<services, sw, boot>>
    \/ (\E n \in EventNames : TaskGetVNID(n)) /\ UNCHANGED <<svcVars, boot>>
    \/ TaskGetVNIDReturn /\ UNCHANGED <<svcVars, boot>>
    \/ (\E n \in EventNames : WaitAndGetVNID_call(n)) /\ UNCHANGED <<svcVars, boot>>
    \/ WaitAndGetVNID_condition /\ UNCHANGED <<svcVars, boot>>
    \/ WaitAndGetVNID_return /\ UNCHANGED <<svcVars, boot>>
    \/ NodeMethodStep /\ UNCHANGED <<svcVars, boot>>

SpecWait == Init /\ [][NextWait]_vars

\* The service watcher handling one delta after another, restarted now and
\* then, while the table changes under it.
NextSvc ==
    \/ (\E d \in Deltas : svc_Deliver(d))
           /\ UNCHANGED <<ids, namespaces, lock, frame, calls, boot>> /\ UNCHANGED nodeVars
    \/ watchServicesStep /\ UNCHANGED boot
    \/ svc_Lookup /\ UNCHANGED boot
    \/ WaitAndGetVNID_condition /\ UNCHANGED <<svcVars, boot>>
    \/ svc_GotVNID /\ UNCHANGED boot
    \/ watchServices
           /\ UNCHANGED <<ids, namespaces, lock, frame, calls, boot>> /\ UNCHANGED nodeVars
    \/ (\E n \in EventNames : Table_setVNID(n, MaxVNID)) /\ UNCHANGED <<svcVars, boot>>
    \/ (\E n \in EventNames : Table_unsetVNID(n)) /\ UNCHANGED <<svcVars, boot>>
    \/ Table_return /\ UNCHANGED <<svcVars, boot>>
    \/ NodeMethodStep /\ UNCHANGED <<svcVars, boot>>

SpecSvc == Init /\ [][NextSvc]_vars

\* The deltas of the two services as the pass lists them, "s" added or
\* updated and the headless "h" with every delta type.
RaceDeltas ==
    {Delta(t, ListedService(Item("a", "svc", 2, TRUE))) : t \in {"Added", "Updated"}}
        \cup {Delta(t, ListedService(Item("a", "svc", 1, FALSE))) : t \in DeltaTypes}

\* The two watchers side by side: the namespace watcher handling one event
\* at a time, its pass programming the dataplane, and the service watcher
\* handling one delta at a time.
NextRace ==
    \/ (\E e \in Events : Deliver(<<e>>)) /\ UNCHANGED <<svcVars, boot>>
    \/ nodeHandleNetnsEvent /\ UNCHANGED <<svcVars, boot>>
    \/ updatePodNetworkStep /\ UNCHANGED <<services, sw, boot>>
    \/ (\E d \in RaceDeltas : svc_Deliver(d))
           /\ UNCHANGED <<ids, namespaces, lock, frame, calls, boot>> /\ UNCHANGED nodeVars
    \/ watchServicesStep /\ UNCHANGED boot
    \/ svc_Lookup /\ UNCHANGED boot
    \/ WaitAndGetVNID_condition /\ UNCHANGED <<svcVars, boot>>
    \/ svc_GotVNID /\ UNCHANGED boot
    \/ NodeMethodStep /\ UNCHANGED <<svcVars, boot>>

SpecRace == Init /\ [][NextRace]_vars

\* What the watches report once they run: a namespace with a new VNID or
\* removed, the cluster-IP service added or deleted.
StartEvents == {Event("Added", "a", MaxVNID), Event("Removed", "a", MaxVNID)}
StartDeltas ==
    {Delta(t, ListedService(Item("a", "svc", 2, TRUE))) : t \in {"Added", "Deleted"}}

\* The node from the call of VnidStartNode on: the population of the table,
\* the launch of the two loops, and the watchers at work while their loops
\* are inside them.
NextStart ==
    \/ VnidStartNodeStep
           /\ UNCHANGED <<ids, namespaces, lock, calls>> /\ UNCHANGED nodeVars
           /\ UNCHANGED svcVars
    \/ (populateVNIDs_setVNID \/ populateVNIDs_next)
           /\ UNCHANGED <<ids, namespaces, lock, calls>> /\ UNCHANGED nodeVars
           /\ UNCHANGED svcVars
    \/ (watchNetNamespaces \/ watchNetNamespaces_return)
           /\ UNCHANGED <<ids, namespaces, lock, frame, calls>> /\ UNCHANGED nodeVars
           /\ UNCHANGED svcVars
    \/ Forever_watchServices
           /\ UNCHANGED <<ids, namespaces, lock, frame, calls>> /\ UNCHANGED nodeVars
    \/ watchServices_return
           /\ UNCHANGED <<ids, namespaces, lock, frame, calls>> /\ UNCHANGED nodeVars
           /\ UNCHANGED svcVars
    \/ (boot.netns = "running" /\ \E e \in StartEvents : Deliver(<<e>>))
           /\ UNCHANGED <<svcVars, boot>>
    \/ nodeHandleNetnsEvent /\ UNCHANGED <<svcVars, boot>>
    \/ updatePodNetworkStep /\ UNCHANGED <<services, sw, boot>>
    \/ (boot.svc = "running" /\ \E d \in StartDeltas : svc_Deliver(d))
           /\ UNCHANGED <<ids, namespaces, lock, frame, calls, boot>> /\ UNCHANGED nodeVars
    \/ watchServicesStep /\ UNCHANGED boot
    \/ svc_Lookup /\ UNCHANGED boot
    \/ WaitAndGetVNID_condition /\ UNCHANGED <<svcVars, boot>>
    \/ svc_GotVNID /\ UNCHANGED boot
    \/ StartMethodStep /\ UNCHANGED <<svcVars, boot>>

SpecStart == Init /\ [][NextStart]_vars

\* utilwait.Forever with period 0 calls its function again as soon as it has
\* returned, and the Go scheduler runs both goroutines.
Forever_netns ==
    watchNetNamespaces
        /\ UNCHANGED <<ids, namespaces, lock, frame, calls>> /\ UNCHANGED nodeVars
        /\ UNCHANGED svcVars

Forever_svc ==
    Forever_watchServices
        /\ UNCHANGED <<ids, namespaces, lock, frame, calls>> /\ UNCHANGED nodeVars

SpecStartFair ==
    /\ SpecStart
    /\ WF_vars(Forever_netns)
    /\ WF_vars(Forever_svc)

\* A state a reader can observe: the mutex is free or held by a reader.
Observable == lock = NoHolder \/ frame[lock].op \in ReadOps

Members(nss, v) == IF v \in DOMAIN nss THEN nss[v] ELSE {}

InList(list, n) == \E k \in 1..Len(list) : list[k] = n

\* The last two calls of the API harness were setVNID(n, u), setVNID(n, v).
TwoSets ==
    /\ Len(calls) = 2
    /\ calls[1].done /\ calls[2].done
    /\ calls[1].op = "setVNID" /\ calls[2].op = "setVNID"
    /\ calls[1].name = calls[2].name

LastCall == calls[Len(calls)]
LastDone == Len(calls) > 0 /\ LastCall.done

\* C1: in every state a reader can observe, the forward and the reverse
\* index agree: ids[n] = v exactly when n is a member of namespaces[v].
C1_IndicesAgree ==
    Observable =>
        \A n \in Names, v \in VNIDs :
            (n \in DOMAIN ids /\ ids[n] = v) <=> (n \in Members(namespaces, v))

\* A reader holds the mutex right after a namespace was moved to another VNID.
C1_Witness ==
    /\ lock = "reader"
    /\ TwoSets
    /\ calls[1].id # calls[2].id
    /\ ids[calls[2].name] = calls[2].id

\* C2: after setVNID(n, u) then setVNID(n, v) with u # v, GetVNID(n) = v, n is
\* not in GetNamespaces(u), n is in GetNamespaces(v), and every other
\* namespace is in the same VNID sets as before the two calls.
C2_Reassignment ==
    (TwoSets /\ calls[1].id # calls[2].id) =>
        LET n == calls[1].name
            u == calls[1].id
            v == calls[2].id
            before == calls[1].pre.namespaces
        IN  /\ GetVNID(ids, n) = [id |-> v, err |-> FALSE]
            /\ ~InList(GetNamespaces(namespaces, u).list, n)
            /\ InList(GetNamespaces(namespaces, v).list, n)
            /\ \A m \in Names \ {n}, x \in VNIDs :
                   InList(GetNamespaces(namespaces, x).list, m)
                       <=> (m \in Members(before, x))

\* n was moved from u to v, where another namespace already was.
C2_Witness ==
    /\ TwoSets
    /\ calls[1].id # calls[2].id
    /\ Len(GetNamespaces(namespaces, calls[2].id).list) = 2
    /\ GetNamespaces(namespaces, calls[1].id).nil

\* The last call took the only member n out of the set of VNID v.
TookLastMember(v) ==
    /\ LastDone
    /\ LastCall.name \in DOMAIN LastCall.pre.ids
    /\ LastCall.pre.ids[LastCall.name] = v
    /\ LastCall.pre.namespaces[v] = {LastCall.name}
    /\ \/ LastCall.op = "unsetVNID"
       \/ LastCall.op = "setVNID" /\ LastCall.id # v

\* C3: no VNID of the reverse index maps to an empty set; when the only
\* member of VNID v's set is unset or moved away, GetNamespaces(v) is nil.
C3_NoEmptySets ==
    /\ \A v \in DOMAIN namespaces : namespaces[v] # {}
    /\ \A v \in VNIDs : TookLastMember(v) => GetNamespaces(namespaces, v).nil

\* unsetVNID removed the only member of a VNID's set, and the key is gone.
C3_Witness ==
    \E v \in VNIDs :
        /\ TookLastMember(v)
        /\ LastCall.op = "unsetVNID"
        /\ v \notin DOMAIN namespaces

\* What C4 says of one finished unsetVNID call c that left the table as
\* (idsAfter, nssAfter).
UnsetContract(c, idsAfter, nssAfter) ==
    IF c.name \in DOMAIN c.pre.ids
    THEN /\ c.ret.err = FALSE
         /\ c.ret.id = c.pre.ids[c.name]
         /\ c.name \notin DOMAIN idsAfter
         /\ \A v \in VNIDs : c.name \notin Members(nssAfter, v)
    ELSE /\ c.ret.err = TRUE
         /\ idsAfter = c.pre.ids
         /\ nssAfter = c.pre.namespaces

\* C4: unsetVNID(n) on a namespace with an entry removes the forward entry
\* and the reverse membership and returns n's VNID; with no entry it returns
\* the not-found error and leaves both indices as they were.
C4_Unset ==
    (LastDone /\ LastCall.op = "unsetVNID") =>
        UnsetContract(LastCall, ids, namespaces)

\* unsetVNID(n) returned n's (non-zero) VNID, and a second unsetVNID(n)
\* the error.
C4_Witness ==
    /\ Len(calls) = 2
    /\ calls[2].done
    /\ calls[1].op = "unsetVNID" /\ calls[2].op = "unsetVNID"
    /\ calls[1].name = calls[2].name
    /\ calls[1].ret.err = FALSE /\ calls[1].ret.id # 0
    /\ calls[2].ret.err = TRUE

\* C5: setVNID(n, v) called twice in a row leaves the table as the first
\* call left it.
C5_Idempotent ==
    (TwoSets /\ calls[1].id = calls[2].id) =>
        /\ ids = calls[2].pre.ids
        /\ namespaces = calls[2].pre.namespaces

\* setVNID(n, v) twice, with another namespace on VNID v too.
C5_Witness ==
    /\ TwoSets
    /\ calls[1].id = calls[2].id
    /\ Cardinality(Members(namespaces, calls[2].id)) = 2

\* ---------------------------------------------------------------- C6
TaskMethodStep ==
    vmapStep("task") /\ UNCHANGED calls /\ UNCHANGED nodeVars

\* The watcher's and the task's steps are taken when they stay possible, and
\* a task waiting for the mutex gets it when it is free again and again.
SpecWaitFair ==
    /\ SpecWait
    /\ WF_vars(NetnsMethodStep /\ UNCHANGED <<svcVars, boot>>)
    /\ SF_vars(TaskMethodStep /\ UNCHANGED <<svcVars, boot>>)
    /\ WF_vars(WaitAndGetVNID_condition /\ UNCHANGED <<svcVars, boot>>)

C6_Bounded ==
    /\ wait.attempts <= Steps
    /\ (wait.pc = "done" /\ wait.allAbsent) =>
           (wait.err /\ wait.id = 0 /\ wait.attempts = Steps)
    /\ (wait.pc = "done" /\ wait.err) => (wait.allAbsent /\ wait.attempts = Steps)

\* A GetVNID body returns the error exactly when the name has no entry, and
\* no step of the task changes the table.
C6_Step ==
    /\ \A p \in Procs :
           (frame[p].pc = "get_vnid" /\ frame'[p].pc = "ret") =>
               /\ frame'[p].ret.err = (frame[p].name \notin DOMAIN ids)
               /\ frame[p].name \in DOMAIN ids => frame'[p].ret.id = ids[frame[p].name]
    /\ (frame'["task"] # frame["task"] \/ wait' # wait) =>
           (ids' = ids /\ namespaces' = namespaces)

\* C6: GetVNID(n) signals not-found whenever n has no entry; WaitAndGetVNID(n)
\* makes at most 5 GetVNID attempts, fails when n had no entry at every one
\* of them, always returns, and never changes the table.
C6_WaitAndGetVNID ==
    /\ []C6_Bounded
    /\ [][C6_Step]_vars
    /\ (wait.pc = "attempt") ~> (wait.pc = "done")

\* WaitAndGetVNID(n) failed after 5 attempts, and n got its entry just after
\* the last one.
C6_Witness ==
    /\ wait.pc = "done"
    /\ wait.err
    /\ wait.attempts = Steps
    /\ wait.name \in DOMAIN ids

\* ---------------------------------------------------------------- C7
Busy == hpc \notin {"idle", "dispatch"}

PassesOf(k) == SelectSeq(passes, LAMBDA c : c.idx = k)

Changed(e, table) ==
    e.NetName \notin DOMAIN table.ids \/ table.ids[e.NetName] # e.NetID

\* C7: an Added(n, v) event sets the table and runs one pass, the table
\* first, exactly when n was absent or had another VNID; otherwise it changes
\* nothing and makes no call. The second of two equal Added events runs no
\* pass; Added(n, 0) for an unknown n runs one.
C7_Added ==
    (Busy /\ evt.Type = "Added") =>
        /\ Len(PassesOf(idx)) <= 1
        /\ hpc = "pass" =>
               (evt.NetName \in DOMAIN ids /\ ids[evt.NetName] = evt.NetID)
        /\ (hpc = "next" /\ Changed(evt, evPre)) =>
               /\ Len(PassesOf(idx)) = 1
               /\ PassesOf(idx)[1].namespace = evt.NetName
               /\ PassesOf(idx)[1].netID = evt.NetID
               /\ PassesOf(idx)[1].oldNetID = GetVNID(evPre.ids, evt.NetName).id
               /\ PassesOf(idx)[1].table.ids[evt.NetName] = evt.NetID
               /\ evt.NetName \in Members(PassesOf(idx)[1].table.namespaces, evt.NetID)
               /\ ids[evt.NetName] = evt.NetID
               /\ Len(log) >= 2
        /\ (hpc = "next" /\ ~Changed(evt, evPre)) =>
               /\ PassesOf(idx) = <<>>
               /\ log = <<>>
               /\ ids = evPre.ids /\ namespaces = evPre.namespaces
        /\ (hpc = "next" /\ idx > 1 /\ batch[idx - 1] = evt) => PassesOf(idx) = <<>>

\* The batch [Added(n, 0), Added(n, 0)] for an unknown n has been handled:
\* one pass, for the first event, with VNID 0 installed.
C7_Witness ==
    /\ hpc = "next"
    /\ idx = 2
    /\ batch = <<Event("Added", "a", 0), Event("Added", "a", 0)>>
    /\ Len(passes) = 1
    /\ passes[1].idx = 1
    /\ passes[1].oldNetID = 0 /\ passes[1].netID = 0
    /\ passes[1].table.ids["a"] = 0
    /\ GetVNID(ids, "a") = [id |-> 0, err |-> FALSE]

\* ---------------------------------------------------------------- C8
\* The events are dispatched in the order of the batch.
InOrder ==
    hpc # "idle" =>
        /\ Len(handled) = (IF hpc = "dispatch" THEN idx - 1 ELSE idx)
        /\ \A k \in 1..Len(handled) : handled[k] = batch[k]

\* Every pass of a Removed(n) event is for n with the global VNID as target.
RemovedTarget ==
    \A k \in 1..Len(passes) :
        handled[passes[k].idx].Type = "Removed" =>
            /\ passes[k].namespace = handled[passes[k].idx].NetName
            /\ passes[k].netID = GlobalVNID

\* ... with the VNID the table records for n, when it records one, as the
\* old VNID
OldIsTableVNID ==
    \A k \in 1..Len(passes) :
        (/\ handled[passes[k].idx].Type = "Removed"
         /\ passes[k].namespace \in DOMAIN passes[k].table.ids) =>
            passes[k].oldNetID = passes[k].table.ids[passes[k].namespace]

\* ... with the VNID the event carries as the old VNID
OldIsEventVNID ==
    \A k \in 1..Len(passes) :
        handled[passes[k].idx].Type = "Removed" =>
            passes[k].oldNetID = handled[passes[k].idx].NetID

\* A batch [Added(n, v), Removed(n, w)] has been handled.
AddedThenRemoved ==
    /\ hpc = "next"
    /\ idx = 2
    /\ Len(batch) = 2
    /\ batch[1].Type = "Added" /\ batch[2].Type = "Removed"
    /\ batch[1].NetName = batch[2].NetName

\* C8 as claimed: events are handled in delivery order; a Removed(n) event
\* runs the pass with the table's VNID of n as old VNID and the global VNID
\* as target; after [Added(n, v), Removed(n)] n has no entry and the
\* removal's pass had old VNID v.
C8_Original ==
    /\ InOrder
    /\ RemovedTarget
    /\ OldIsTableVNID
    /\ AddedThenRemoved =>
           /\ batch[2].NetName \notin DOMAIN ids
           /\ PassesOf(2)[1].oldNetID = batch[1].NetID

\* C8, amended: events are handled in delivery order; a Removed(n, w) event
\* runs the pass with the VNID w the event carries as old VNID and the
\* global VNID as target; after [Added(n, v), Removed(n, w)] n has no entry
\* and the removal's one pass had old VNID w.
C8_RemovedPass ==
    /\ InOrder
    /\ RemovedTarget
    /\ OldIsEventVNID
    /\ AddedThenRemoved =>
           /\ batch[2].NetName \notin DOMAIN ids
           /\ Len(PassesOf(2)) = 1
           /\ PassesOf(2)[1].oldNetID = batch[2].NetID

\* [Added(a, 1), Removed(a, 1)] has been handled: a has no entry, and the
\* removal's pass ran with old VNID 1 towards the global VNID.
C8_Witness ==
    /\ AddedThenRemoved
    /\ batch[1].NetID = 1 /\ batch[2].NetID = 1
    /\ batch[2].NetName \notin DOMAIN ids
    /\ PassesOf(2)[1].oldNetID = 1
    /\ PassesOf(2)[1].netID = GlobalVNID
    /\ PassesOf(2)[1].table.ids[batch[2].NetName] = 1

\* ---------------------------------------------------------------- C9
\* The handler is in a Removed(n) event for an n that had an entry.
RemovingKnown ==
    /\ Busy
    /\ evt.Type = "Removed"
    /\ evt.NetName \in DOMAIN evPre.ids

\* The calls of a finished pass over the given lists.
RECURSIVE ServiceCalls(_, _)
ServiceCalls(svcs, netID) ==
    IF svcs = <<>> THEN <<>>
    ELSE (IF IsServiceIPSet(Head(svcs))
          THEN <<[call |-> "DeleteServiceRules", item |-> Head(svcs), netID |-> 0],
                 [call |-> "AddServiceRules", item |-> Head(svcs), netID |-> netID]>>
          ELSE <<>>)
         \o ServiceCalls(Tail(svcs), netID)

PassCalls(namespace, runPods, otherPods, svcs, netID) ==
    <<[call |-> "GetLocalPods", item |-> Item(namespace, "list", 0, FALSE), netID |-> 0],
      [call |-> "ListServices", item |-> Item(namespace, "list", 0, FALSE), netID |-> 0]>>
    \o [k \in 1..Len(runPods) |-> [call |-> "UpdatePod", item |-> runPods[k], netID |-> 0]]
    \o [k \in 1..Len(otherPods) |-> [call |-> "DeletePod", item |-> otherPods[k], netID |-> 0]]
    \o ServiceCalls(svcs, netID)

\* C9: while the pass of a Removed(n) event runs, GetVNID(n) finds n's entry
\* unchanged; the entry is gone only once the pass is over.
C9_UnsetAfterPass ==
    RemovingKnown =>
        /\ hpc = "pass" =>
               GetVNID(ids, evt.NetName)
                   = [id |-> evPre.ids[evt.NetName], err |-> FALSE]
        /\ evt.NetName \notin DOMAIN ids =>
               /\ hpc \in {"call", "next"}
               /\ pass = NoPass
               /\ Len(PassesOf(idx)) = 1
               /\ Len(log) >= 2
               /\ log[Len(log)].call \in {"ListServices", "UpdatePod", "DeletePod",
                                          "AddServiceRules"}

\* Another task is inside GetVNID(n), holding the mutex, while the pass of
\* Removed(n) is between a service's rule delete and rule add.
C9_Witness ==
    /\ RemovingKnown
    /\ hpc = "pass"
    /\ pass.pc = "add_rules"
    /\ frame["task"].pc = "get_vnid"
    /\ frame["task"].name = evt.NetName

\* ---------------------------------------------------------------- C10
\* A step of the handler, of the pass it is in or of the vmap method it called.
HandlerStep == nodeHandleNetnsEvent \/ updatePodNetworkStep \/ NetnsMethodStep

\* C10: whichever calls fail, a pass makes every call for every pod and
\* service it listed and returns; the handler is never stuck, and has
\* dispatched every event of the batch when it ends.
C10_FailureIsolation ==
    /\ pass.pc = "return" =>
           log = PassCalls(pass.namespace, pass.runPods, pass.otherPods,
                           pass.services, pass.netID)
    /\ (pass.pc = "return" /\ firstFail \notin {1, 2}) =>
           log = PassCalls(pass.namespace, GetLocalPods(pass.namespace).runPods,
                           GetLocalPods(pass.namespace).otherPods,
                           ListServices(pass.namespace), pass.netID)
    /\ hpc # "idle" => ENABLED HandlerStep
    /\ (hpc = "next" /\ idx = Len(batch)) => handled = batch

\* The update of the first running pod failed, the next running pod still
\* got its update, the other pod its deletion and the service its rules, the
\* pass returned, and an earlier event's failure did not keep this event
\* from being handled.
C10_Witness ==
    /\ pass.pc = "return"
    /\ firstFail > 0
    /\ log[firstFail].call = "UpdatePod" /\ log[firstFail].item.k = 1
    /\ log[firstFail + 1].call = "UpdatePod" /\ log[firstFail + 1].item.k = 2
    /\ \E k \in 1..Len(log) : log[k].call = "DeletePod"
    /\ log[Len(log)].call = "AddServiceRules"
    /\ failedBefore
    /\ idx = 2

\* ---------------------------------------------------------------- C17
\* C17: an event that is neither Added nor Removed changes nothing in the
\* table, starts no pass and makes no call (of the table or of the
\* dataplane); the handler goes on to the next event, and the events of the
\* batch are dispatched in order, all of them by the time the handler ends.
C17_UnknownIgnored ==
    /\ (Busy /\ evt.Type \notin {"Added", "Removed"}) =>
           /\ hpc = "next"
           /\ ids = evPre.ids /\ namespaces = evPre.namespaces
           /\ PassesOf(idx) = <<>>
           /\ pass = NoPass
           /\ log = <<>>
           /\ frame["netns"] = NoFrame
           /\ ENABLED NextEvent
    /\ \A k \in 1..Len(handled) : handled[k] = batch[k]
    /\ (hpc = "next" /\ idx = Len(batch)) => Len(handled) = Len(batch)

\* The batch [Other(a), Added(a, 1)] has been handled: nothing was done for
\* the first event, and the second installed VNID 1 and ran its pass.
C17_Witness ==
    /\ hpc = "next"
    /\ idx = 2
    /\ batch[1].Type = "Other"
    /\ batch[2] = Event("Added", "a", 1)
    /\ Len(passes) = 1 /\ passes[1].idx = 2
    /\ GetVNID(ids, "a") = [id |-> 1, err |-> FALSE]

\* ---------------------------------------------------------------- C16
IsPodCall(c) == c.call \in {"UpdatePod", "DeletePod"}
IsRuleCall(c) == c.call \in {"DeleteServiceRules", "AddServiceRules"}

\* C16: in the calls one pass has made so far, every pod update and pod
\* deletion comes before every service rule call; an AddServiceRules comes
\* right after the DeleteServiceRules of the same cluster-IP service and
\* carries the pass's new VNID; and every DeleteServiceRules, failed or not,
\* is followed by that AddServiceRules.
C16_PassOrder ==
    /\ \A j, k \in 1..Len(log) :
           (IsRuleCall(log[j]) /\ IsPodCall(log[k])) => k < j
    /\ \A k \in 1..Len(log) :
           log[k].call = "AddServiceRules" =>
               /\ k > 1
               /\ log[k - 1].call = "DeleteServiceRules"
               /\ log[k - 1].item = log[k].item
               /\ IsServiceIPSet(log[k].item)
               /\ passes # <<>>
               /\ log[k].netID = passes[Len(passes)].netID
    /\ \A k \in 1..Len(log) :
           log[k].call = "DeleteServiceRules" =>
               IF k < Len(log)
               THEN log[k + 1].call = "AddServiceRules"
               ELSE hpc = "pass" /\ pass.pc = "add_rules"

\* The pass is not transactional: Added(n, v) moved n from another VNID, the
\* table has v, the running pods have been updated without failure, and the
\* cluster-IP service of n has had no rule call yet.
C16_Witness ==
    /\ hpc = "pass"
    /\ evt.Type = "Added"
    /\ evt.NetName \in DOMAIN evPre.ids
    /\ evPre.ids[evt.NetName] # evt.NetID
    /\ ids[evt.NetName] = evt.NetID
    /\ pass.oldNetID = evPre.ids[evt.NetName]
    /\ firstFail = 0
    /\ Cardinality({k \in 1..Len(log) : log[k].call = "UpdatePod"}) = NumRunPods
    /\ \A k \in 1..Len(log) : ~IsRuleCall(log[k])
    /\ pass.pc = "services"
    /\ pass.i <= Len(pass.services)
    /\ IsServiceIPSet(pass.services[pass.i])

\* ---------------------------------------------------------------- C18
\* While WaitAndGetVNID is in progress its task holds the mutex only inside
\* the body of one GetVNID, and the watcher waiting for the mutex waits for
\* no more than that body, which can always finish.
C18_LockFreeBetweenAttempts ==
    wait.pc = "attempt" =>
        /\ lock = "task" => frame["task"].pc = "get_vnid"
        /\ frame["task"].pc \in {"lock", "ret"} => lock # "task"
        /\ (frame["netns"].pc = "lock" /\ lock # NoHolder) =>
               /\ lock = "task"
               /\ ENABLED GetVNID_body("task")

\* An attempt made while n has VNID v finds v, and WaitAndGetVNID returns
\* what a successful attempt found; it fails only after attempt number 5
\* failed.
C18_Step ==
    /\ (/\ wait.pc = "attempt"
        /\ frame["task"].pc = "get_vnid" /\ frame'["task"].pc = "ret"
        /\ wait.name \in DOMAIN ids) =>
           /\ frame'["task"].ret.err = FALSE
           /\ frame'["task"].ret.id = ids[wait.name]
    /\ (wait.pc = "attempt" /\ wait'.pc = "done") =>
           IF frame["task"].ret.err
           THEN wait'.err /\ wait.attempts = Steps
           ELSE ~wait'.err /\ wait'.id = frame["task"].ret.id
    /\ (wait.pc = "attempt" /\ wait'.pc = "attempt" /\ wait' # wait) =>
           /\ frame["task"].ret.err
           /\ wait.attempts < Steps
           /\ frame'["task"] = Invoke("GetVNID", wait.name, 0)

\* C18: WaitAndGetVNID does not hold the mutex between its attempts, so the
\* watcher's setVNID/unsetVNID is never blocked by it for longer than one
\* GetVNID body; and an attempt made after setVNID(n, v) completed, with n
\* unchanged since, makes WaitAndGetVNID(n) return v.
C18_WaitDoesNotHoldLock ==
    /\ []C18_LockFreeBetweenAttempts
    /\ [][C18_Step]_vars

\* n was unknown at the first attempts, the watcher's setVNID(n, 1) completed
\* between two attempts, and WaitAndGetVNID(n) returned 1.
C18_Witness ==
    /\ wait.pc = "done"
    /\ ~wait.err
    /\ wait.attempts > 2
    /\ wait.id = 1
    /\ GetVNID(ids, wait.name) = [id |-> 1, err |-> FALSE]

\* ---------------------------------------------------------------- C11
\* The port lists have the same length and the same protocol and port
\* number at every position.
SamePorts(a, b) ==
    /\ Len(a.Ports) = Len(b.Ports)
    /\ \A i \in 1..Len(a.Ports) :
           /\ a.Ports[i].Protocol = b.Ports[i].Protocol
           /\ a.Ports[i].Port = b.Ports[i].Port

\* The function has finished a Sync/Added/Updated delta of a cluster-IP
\* service whose UID was in the shadow cache.
UpdateOfCached ==
    /\ sw.pc = "return"
    /\ sw.delta.Type \in {"Sync", "Added", "Updated"}
    /\ IsServiceIPSet(sw.delta.Object)
    /\ sw.exists

CallsOf(seq) == [k \in 1..Len(seq) |-> [call |-> seq[k].call, svc |-> seq[k].svc]]

NoOp ==
    /\ sw.calls = <<>>
    /\ sw.delta.Object.UID \in DOMAIN services
    /\ services[sw.delta.Object.UID] = sw.oldsvc

\* C11 as claimed: such a delta is a no-op exactly when the port lists are
\* the same; otherwise DeleteServiceRules(old) and then AddServiceRules(new)
\* are called.
C11_Original ==
    UpdateOfCached =>
        IF SamePorts(sw.oldsvc, sw.delta.Object)
        THEN NoOp
        ELSE CallsOf(sw.calls) =
                 <<[call |-> "DeleteServiceRules", svc |-> sw.oldsvc],
                   [call |-> "AddServiceRules", svc |-> sw.delta.Object]>>

\* C11, amended: such a delta is a no-op exactly when the port lists are the
\* same; otherwise DeleteServiceRules(old) is called and then, unless the
\* VNID lookup failed, AddServiceRules(new).
C11_ChangeDetection ==
    UpdateOfCached =>
        IF SamePorts(sw.oldsvc, sw.delta.Object)
        THEN NoOp
        ELSE /\ sw.calls # <<>>
             /\ CallsOf(sw.calls)[1] = [call |-> "DeleteServiceRules", svc |-> sw.oldsvc]
             /\ \/ /\ Len(sw.calls) = 1
                   /\ sw.lookup = "failed"
                   /\ sw.err
                \/ /\ Len(sw.calls) = 2
                   /\ sw.lookup = "ok"
                   /\ CallsOf(sw.calls)[2] =
                          [call |-> "AddServiceRules", svc |-> sw.delta.Object]
                   /\ sw.err = ~sw.calls[2].ok

\* An update from [{TCP,80}] to [{TCP,80},{TCP,443}]: the old rules were
\* deleted, the new ones added, and the cache holds the new definition.
C11_Witness ==
    /\ UpdateOfCached
    /\ sw.delta.Type = "Updated"
    /\ sw.oldsvc.Ports = <<ServicePort("TCP", 80)>>
    /\ sw.delta.Object.Ports = <<ServicePort("TCP", 80), ServicePort("TCP", 443)>>
    /\ Len(sw.calls) = 2 /\ sw.calls[1].ok /\ sw.calls[2].ok
    /\ services[sw.delta.Object.UID] = sw.delta.Object


(* ------------------------------ C14 ------------------------------------ *)

\* WaitAndGetVNID has returned an error for the delta in hand.
LookupFailed == sw.lookup = "failed"

\* The function takes the result of a WaitAndGetVNID that failed.
TakesFailedLookup ==
    /\ sw.pc = "waiting"
    /\ wait.pc = "done"
    /\ wait.err
    /\ sw' # sw

CalledAddServiceRules(seq) ==
    \E k \in 1..Len(seq) : seq[k].call = "AddServiceRules"

\* The shadow cache gets a new or another definition for some UID.
StoresDefinition ==
    \E uid \in DOMAIN services' :
        uid \notin DOMAIN services \/ services[uid] # services'[uid]

\* After a failed lookup the function is at its return, AddServiceRules was
\* not called for the delta, and the cache entry of the UID is what line 253
\* found; the watcher can take the next delta.
C14_Skipped ==
    /\ LookupFailed =>
          /\ sw.pc = "return"
          /\ sw.err
          /\ sw.delta.Type \in {"Sync", "Added", "Updated"}
          /\ ~CalledAddServiceRules(sw.calls)
          /\ IF sw.exists
             THEN /\ sw.delta.Object.UID \in DOMAIN services
                  /\ services[sw.delta.Object.UID] = sw.oldsvc
             ELSE sw.delta.Object.UID \notin DOMAIN services
          /\ ENABLED svc_Return
    /\ CalledAddServiceRules(sw.calls) => sw.lookup = "ok"
    /\ sw.pc = "idle" => \A d \in Deltas : ENABLED svc_Deliver(d)

C14_Step ==
    /\ TakesFailedLookup =>
          /\ sw'.lookup = "failed"
          /\ sw'.pc = "return"
          /\ sw'.calls = sw.calls
          /\ services' = services
          /\ rules' = rules
    /\ (sw.pc = "waiting" /\ sw'.pc # "waiting") => (sw'.lookup = "failed") = wait.err
    /\ LookupFailed =>
          /\ sw' \in {sw, NoSw}
          /\ services' = services
          /\ rules' = rules
    /\ StoresDefinition =>
          /\ sw.lookup = "ok"
          /\ sw.calls # <<>>
          /\ sw.calls[Len(sw.calls)] =
                 SvcCall("AddServiceRules", sw.delta.Object, sw.netid, TRUE)
          /\ services' = MapPut(services, sw.delta.Object.UID, sw.delta.Object)

\* C14: when WaitAndGetVNID fails for a new or changed service the update is
\* skipped: AddServiceRules is not called for that delta, the shadow-cache
\* entry of the UID is neither created nor replaced, and the watcher goes on
\* to take later deltas; the shadow cache stores a definition only right
\* after AddServiceRules succeeded for it.
C14_LookupFailureSkipsUpdate ==
    []C14_Skipped /\ [][C14_Step]_vars

\* A changed update of a cached service whose lookup failed after the old
\* rules were deleted: no AddServiceRules, the cache still holds the old
\* definition.
C14_Witness ==
    /\ LookupFailed
    /\ sw.pc = "return"
    /\ sw.exists
    /\ Len(sw.calls) = 1
    /\ sw.calls[1].call = "DeleteServiceRules"
    /\ sw.oldsvc # sw.delta.Object
    /\ services[sw.delta.Object.UID] = sw.oldsvc


(* ------------------------------ C15 ------------------------------------ *)

IsServiceRuleCall(call) == call \in {"AddServiceRules", "DeleteServiceRules"}

\* C15: headless services are ignored everywhere: no delta of any type for a
\* service without a cluster IP enters it into the shadow cache or calls
\* AddServiceRules or DeleteServiceRules, the pass calls no rule primitive for
\* a headless service of its list, and no flow of one is ever installed.
C15_HeadlessIgnored ==
    /\ \A uid \in DOMAIN services : IsServiceIPSet(services[uid])
    /\ ~IsServiceIPSet(sw.delta.Object) => sw.calls = <<>>
    /\ \A k \in 1..Len(sw.calls) : IsServiceIPSet(sw.calls[k].svc)
    /\ \A k \in 1..Len(log) :
           IsServiceRuleCall(log[k].call) => IsServiceIPSet(log[k].item)
    /\ \A f \in DOMAIN rules : f.UID # "h"

\* The watcher has handled a Deleted delta of the headless service, and the
\* pass has gone past the headless service of its list and programmed the
\* next one.
C15_Witness ==
    /\ sw.pc = "return"
    /\ sw.delta.Type = "Deleted"
    /\ ~IsServiceIPSet(sw.delta.Object)
    /\ pass.pc = "services"
    /\ pass.i > 2
    /\ ~IsServiceIPSet(pass.services[1])
    /\ \E k \in 1..Len(log) : IsServiceRuleCall(log[k].call)


(* ------------------------------ C19 ------------------------------------ *)

\* the flows installed for a service UID
InstalledFlows(uid) == {f \in DOMAIN rules : f.UID = uid}

\* C19: between deltas, the shadow cache holds a UID only while the
\* dataplane holds the rules of exactly the cached definition, whichever
\* lookups and rule calls failed on the way. The code breaks it: after an
\* update whose old rules were deleted and whose lookup or AddServiceRules
\* then failed, the cache still holds the old definition.
C19_CacheMatchesRules ==
    sw.pc = "idle" =>
        \A uid \in DOMAIN services : InstalledFlows(uid) = Flows(services[uid])


(* ------------------------------ C20 ------------------------------------ *)

\* The namespace watcher has finished handling Added(n, v): the table was
\* changed, the pass ran, and none of its calls failed.
NetnsAddedDone ==
    /\ hpc = "next"
    /\ idx = Len(batch)
    /\ evt.Type = "Added"
    /\ passes # <<>>
    /\ firstFail = 0

\* The service watcher has finished an Added/Updated delta of a cluster-IP
\* service: AddServiceRules was called and no call failed.
SvcAddedDone ==
    /\ sw.pc = "return"
    /\ sw.delta.Type \in {"Added", "Updated"}
    /\ IsServiceIPSet(sw.delta.Object)
    /\ ~sw.err
    /\ sw.calls # <<>>
    /\ sw.calls[Len(sw.calls)].call = "AddServiceRules"
    /\ \A k \in 1..Len(sw.calls) : sw.calls[k].ok

\* C20: once the namespace watcher has handled Added(n, v) and the service
\* watcher an Added/Updated delta of a cluster-IP service of n, in whatever
\* interleaving and with every primitive succeeding, the rules installed for
\* the service carry the VNID the table records for n. The code breaks it:
\* the service watcher installs rules with the VNID it looked up before the
\* namespace's VNID changed.
C20_NoStaleVNID ==
    (NetnsAddedDone /\ SvcAddedDone /\ sw.delta.Object.Namespace = evt.NetName) =>
        /\ evt.NetName \in DOMAIN ids
        /\ \A f \in Flows(sw.delta.Object) :
               f \in DOMAIN rules /\ rules[f] = ids[evt.NetName]


(* ------------------------------ C12 ------------------------------------ *)

\* C12: neither watcher starts before the initial population of the table
\* has completed successfully (every entry of the list installed, no error);
\* if the listing fails, VnidStartNode returns the error, no watcher is ever
\* launched and the table has no entry.
C12_StartupSequencing ==
    /\ (boot.netns # "off" \/ boot.svc # "off") =>
           /\ boot.pc \in {"launch_svc", "ready"}
           /\ boot.list = <<>>
           /\ ~boot.err
           /\ frame["caller"] = NoFrame
    /\ boot.svc # "off" => boot.netns # "off"
    /\ boot.netns # "running" => hpc = "idle"
    /\ boot.svc # "running" => sw.pc = "idle"
    /\ boot.err =>
           /\ boot.pc = "failed"
           /\ boot.netns = "off" /\ boot.svc = "off"
           /\ ids = EmptyMap /\ namespaces = EmptyMap
           /\ rules = EmptyMap /\ services = EmptyMap

\* Both watchers are at work after a population that installed entries for
\* both namespaces.
C12_Witness ==
    /\ boot.pc = "ready"
    /\ boot.netns = "running" /\ hpc = "pass"
    /\ boot.svc = "running" /\ sw.pc = "waiting"
    /\ "b" \in DOMAIN ids
    /\ "a" \in DOMAIN ids

(* ------------------------------ C13 ------------------------------------ *)

\* After a successful startup the loops never end and nothing turns the
\* start into a failure.
C13_NoTerminalError ==
    boot.pc = "ready" =>
        /\ boot'.pc = "ready"
        /\ ~boot'.err
        /\ boot'.netns # "off"
        /\ boot'.svc # "off"

\* A watcher's return or restart leaves the other watcher where it is.
C13_Independent ==
    /\ boot'.netns # boot.netns =>
           boot'.svc = boot.svc /\ sw' = sw /\ services' = services
    /\ boot'.svc # boot.svc =>
           boot'.netns = boot.netns /\ hpc' = hpc /\ batch' = batch /\ pass' = pass

\* C13: after a successful startup, whenever the namespace watch or the
\* service watch is not running (it failed or returned) it is eventually
\* running again, however often that happens; the return of one watcher
\* does not stop the other, and no return ends the loops or turns into an
\* error of the start.
C13_RetryForever ==
    /\ (boot.pc = "ready" /\ boot.netns # "running") ~> (boot.netns = "running")
    /\ (boot.pc = "ready" /\ boot.svc # "running") ~> (boot.svc = "running")
    /\ [][C13_NoTerminalError /\ C13_Independent]_vars

\* The namespace watch has returned after handling events (namespace a is
\* gone from the table while flows are installed, which only a handled
\* Removed event brings about) and is about to be called again, while the
\* service watcher is in the middle of a delta.
C13_Witness ==
    /\ boot.pc = "ready"
    /\ boot.netns = "calling"
    /\ "a" \notin DOMAIN ids
    /\ rules # EmptyMap
    /\ boot.svc = "running"
    /\ sw.pc = "add_rules"

====
